---- MODULE Spec2Model ----
(***************************************************************************)
(* Model of mcp-server-cloud-agent (index.js): the process-wide            *)
(* configuration, the HTTP helper request() with the events Node's http    *)
(* client delivers to it, and the nine tool handlers.                      *)
(*                                                                         *)
(* Two string representations are used.                                    *)
(*   Str  : a sequence of one-character strings (URLs, paths, arguments).  *)
(*   Text : a sequence of runs [c |-> character, n |-> count], canonical   *)
(*          (no empty run, no two adjacent runs of the same character),    *)
(*          so that a body of several MiB is a handful of runs and text    *)
(*          equality is string equality.                                   *)
(***************************************************************************)
EXTENDS Integers, Sequences, FiniteSets, TLC

(***************************************************************************)
(* Str helpers                                                             *)
(***************************************************************************)

\* The least index of s, from i on, holding a character of cs; 0 when none.
IndexFrom(s, cs, i) ==
  LET I == {k \in i..Len(s) : s[k] \in cs}
  IN IF I = {} THEN 0 ELSE CHOOSE k \in I : \A m \in I : k <= m

\* The greatest index of s holding a character of cs; 0 when none.
LastIndexOf(s, cs) ==
  LET I == {k \in 1..Len(s) : s[k] \in cs}
  IN IF I = {} THEN 0 ELSE CHOOSE k \in I : \A m \in I : m <= k

\* s from index i to its end.
From(s, i) == SubSeq(s, i, Len(s))

\* String.prototype.split on any of the separators cs.
RECURSIVE Split(_, _)
Split(s, cs) ==
  LET i == IndexFrom(s, cs, 1)
  IN IF i = 0 THEN <<s>> ELSE <<SubSeq(s, 1, i - 1)>> \o Split(From(s, i + 1), cs)

Digits == <<"0","1","2","3","4","5","6","7","8","9">>
DigitSet == {Digits[i] : i \in 1..10}
Letters ==
  {"a","b","c","d","e","f","g","h","i","j","k","l","m","n","o","p","q","r","s","t",
   "u","v","w","x","y","z"}

\* Template-literal conversion of a non-negative integer: its decimal digits.
RECURSIVE NumStr(_)
NumStr(n) == IF n < 10 THEN <<Digits[n + 1]>> ELSE NumStr(n \div 10) \o <<Digits[(n % 10) + 1]>>

(***************************************************************************)
(* Text helpers                                                            *)
(***************************************************************************)

Run(c, n) == [c |-> c, n |-> n]

\* a + b on texts.
TCat(a, b) ==
  IF a = <<>> THEN b
  ELSE IF b = <<>> THEN a
  ELSE IF a[Len(a)].c = b[1].c
       THEN SubSeq(a, 1, Len(a) - 1) \o <<Run(b[1].c, a[Len(a)].n + b[1].n)>> \o Tail(b)
       ELSE a \o b

\* The text of a Str (by halves, which keeps the evaluation shallow).
RECURSIVE Runs(_)
Runs(s) ==
  IF s = <<>> THEN <<>>
  ELSE IF Len(s) = 1 THEN <<Run(s[1], 1)>>
  ELSE LET h == Len(s) \div 2
       IN TCat(Runs(SubSeq(s, 1, h)), Runs(SubSeq(s, h + 1, Len(s))))

\* String.prototype.length.
RECURSIVE TLen(_)
TLen(t) == IF t = <<>> THEN 0 ELSE Head(t).n + TLen(Tail(t))

\* String.prototype.slice(0, k).
RECURSIVE TTake(_, _)
TTake(t, k) ==
  IF t = <<>> \/ k <= 0 THEN <<>>
  ELSE IF Head(t).n >= k THEN <<Run(Head(t).c, k)>>
  ELSE <<Head(t)>> \o TTake(Tail(t), k - Head(t).n)

\* String.prototype.slice(k).
RECURSIVE TDrop(_, _)
TDrop(t, k) ==
  IF t = <<>> \/ k <= 0 THEN t
  ELSE IF Head(t).n > k THEN <<Run(Head(t).c, Head(t).n - k)>> \o Tail(t)
  ELSE TDrop(Tail(t), k - Head(t).n)

\* String.prototype.includes(p) for a non-empty p: the first run of p ends a
\* run of t, its middle runs are runs of t, its last run begins a run of t.
TContains(t, p) ==
  LET m == Len(p)
  IN IF m = 0 THEN TRUE
     ELSE IF m = 1 THEN \E i \in 1..Len(t) : t[i].c = p[1].c /\ t[i].n >= p[1].n
     ELSE \E i \in 1..(Len(t) - m + 1) :
            /\ t[i].c = p[1].c /\ t[i].n >= p[1].n
            /\ \A j \in 2..(m - 1) : t[i + j - 1] = p[j]
            /\ t[i + m - 1].c = p[m].c /\ t[i + m - 1].n >= p[m].n

(***************************************************************************)
(* URLs: encodeURIComponent and the WHATWG parser behind `new URL(...)`,   *)
(* for the special schemes (http, https, ws, wss, ftp) and for strings     *)
(* with no scheme, which are the values the configuration takes here.      *)
(***************************************************************************)

\* The characters encodeURIComponent leaves alone: A-Z a-z 0-9 - _ . ! ~ * ' ( )
Unreserved ==
  Letters \cup DigitSet \cup {"-", "_", ".", "!", "~", "*", "'", "(", ")"}
  \cup {"A","B","C","D","E","F","G","H","I","J","K","L","M","N","O","P","Q","R","S","T",
        "U","V","W","X","Y","Z"}

\* The escape of one (ASCII) character: % and the two hex digits of its code.
PercentCode(c) ==
  CASE c = " "  -> <<"%","2","0">>
    [] c = "#"  -> <<"%","2","3">>
    [] c = "%"  -> <<"%","2","5">>
    [] c = "/"  -> <<"%","2","F">>
    [] c = ":"  -> <<"%","3","A">>
    [] c = "?"  -> <<"%","3","F">>
    [] c = "@"  -> <<"%","4","0">>
    [] c = "\\" -> <<"%","5","C">>

RECURSIVE encodeURIComponent(_)
encodeURIComponent(s) ==
  IF s = <<>> THEN <<>>
  ELSE (IF Head(s) \in Unreserved THEN <<Head(s)>> ELSE PercentCode(Head(s)))
       \o encodeURIComponent(Tail(s))

SpecialSchemes ==
  {<<"h","t","t","p">>, <<"h","t","t","p","s">>, <<"w","s">>, <<"w","s","s">>, <<"f","t","p">>}

DefaultPort(scheme) ==
  CASE scheme = <<"h","t","t","p">> -> <<"8","0">>
    [] scheme = <<"h","t","t","p","s">> -> <<"4","4","3">>
    [] scheme = <<"w","s">> -> <<"8","0">>
    [] scheme = <<"w","s","s">> -> <<"4","4","3">>
    [] scheme = <<"f","t","p">> -> <<"2","1">>

SingleDot == {<<".">>, <<"%","2","e">>, <<"%","2","E">>}
DoubleDot == {a \o b : a \in SingleDot, b \in SingleDot}

\* The path percent-encode set, for the characters that occur here.
RECURSIVE PathEncode(_)
PathEncode(s) ==
  IF s = <<>> THEN <<>>
  ELSE (IF Head(s) \in {" ", "#", "?"} THEN PercentCode(Head(s)) ELSE <<Head(s)>>)
       \o PathEncode(Tail(s))

\* The query percent-encode set, for the characters that occur here.
RECURSIVE QueryEncode(_)
QueryEncode(s) ==
  IF s = <<>> THEN <<>>
  ELSE (IF Head(s) = " " THEN PercentCode(Head(s)) ELSE <<Head(s)>>) \o QueryEncode(Tail(s))

\* The path state of the parser: the segments of the path, with "." dropped
\* and ".." removing the segment before it.
RECURSIVE PathSegments(_, _, _)
PathSegments(segs, i, acc) ==
  IF i > Len(segs) THEN acc
  ELSE LET s == segs[i]
           last == (i = Len(segs))
           popped == IF acc = <<>> THEN acc ELSE SubSeq(acc, 1, Len(acc) - 1)
       IN IF s \in DoubleDot
            THEN PathSegments(segs, i + 1, IF last THEN Append(popped, <<>>) ELSE popped)
          ELSE IF s \in SingleDot
            THEN PathSegments(segs, i + 1, IF last THEN Append(acc, <<>>) ELSE acc)
          ELSE PathSegments(segs, i + 1, Append(acc, PathEncode(s)))

\* "/" before every segment.
RECURSIVE JoinPath(_)
JoinPath(segs) == IF segs = <<>> THEN <<>> ELSE <<"/">> \o Head(segs) \o JoinPath(Tail(segs))

InvalidURL ==
  [ok |-> FALSE, protocol |-> <<>>, hostname |-> <<>>, port |-> <<>>,
   pathname |-> <<>>, search |-> <<>>]

\* The URL of a scheme, an authority split at its last ":" into host and
\* port, and what follows the authority split at "#" and "?".
URLRecord(scheme, host, rawPort, noFrag, qAt) ==
  IF host = <<>> \/ \E k \in 1..Len(rawPort) : rawPort[k] \notin DigitSet
    THEN InvalidURL
  ELSE [ok |-> TRUE,
        protocol |-> scheme \o <<":">>,
        hostname |-> host,
        port |-> IF rawPort = DefaultPort(scheme) THEN <<>> ELSE rawPort,
        pathname |->
          JoinPath(PathSegments(
            Split(IF qAt = 1 \/ noFrag = <<>> THEN <<>>
                  ELSE Tail(IF qAt = 0 THEN noFrag ELSE SubSeq(noFrag, 1, qAt - 1)),
                  {"/", "\\"}), 1, <<>>)),
        search |-> IF qAt = 0 \/ qAt = Len(noFrag) THEN <<>>
                   ELSE <<"?">> \o QueryEncode(From(noFrag, qAt + 1))]

\* The host and port of the authority, the path and query of the tail.
URLParts(scheme, authority, pcolon, noFrag) ==
  URLRecord(scheme,
            IF pcolon = 0 THEN authority ELSE SubSeq(authority, 1, pcolon - 1),
            IF pcolon = 0 THEN <<>> ELSE From(authority, pcolon + 1),
            noFrag, IndexFrom(noFrag, {"?"}, 1))

\* The authority ends at the first of / \ ? #; the fragment is dropped.
URLAuthority(scheme, rest, authEnd) ==
  URLParts(scheme,
           IF authEnd = 0 THEN rest ELSE SubSeq(rest, 1, authEnd - 1),
           LastIndexOf(IF authEnd = 0 THEN rest ELSE SubSeq(rest, 1, authEnd - 1), {":"}),
           IF authEnd = 0 THEN <<>>
           ELSE SubSeq(rest, authEnd,
                       IF IndexFrom(rest, {"#"}, authEnd) = 0 THEN Len(rest)
                       ELSE IndexFrom(rest, {"#"}, authEnd) - 1))

\* The special authority (ignore) slashes state: every leading / or \ of
\* what follows the scheme is skipped.
RECURSIVE SkipSlashes(_)
SkipSlashes(s) ==
  IF s # <<>> /\ Head(s) \in {"/", "\\"} THEN SkipSlashes(Tail(s)) ELSE s

URLAfterScheme(scheme, rest) == URLAuthority(scheme, rest, IndexFrom(rest, {"/", "\\", "?", "#"}, 1))

URLOfScheme(u, colon) ==
  IF colon <= 1 \/ SubSeq(u, 1, colon - 1) \notin SpecialSchemes THEN InvalidURL
  ELSE URLAfterScheme(SubSeq(u, 1, colon - 1), SkipSlashes(From(u, colon + 1)))

\* new URL(u): ok is FALSE where the constructor throws TypeError.
ParseURL(u) == URLOfScheme(u, IndexFrom(u, {":"}, 1))

(***************************************************************************)
(* JSON values and JSON.parse.  A value is a record [t, s, kids]: t is the *)
(* type, s the text of a string, number or boolean, kids the members of an *)
(* object ([k, v]) or the elements of an array ([k |-> <<>>, v]).          *)
(* The grammar covers objects, arrays, strings without escapes, unsigned   *)
(* integers, true, false, null and blanks: the response bodies drawn below *)
(* use no backslash, sign, fraction or exponent.                           *)
(***************************************************************************)

JV(t, s, kids) == [t |-> t, s |-> s, kids |-> kids]
Undefined == JV("undef", <<>>, <<>>)
JNull == JV("null", <<>>, <<>>)
JStr(s) == JV("str", s, <<>>)
JNum(s) == JV("num", s, <<>>)
JBool(s) == JV("bool", s, <<>>)

S_null == <<"n","u","l","l">>
S_true == <<"t","r","u","e">>
S_false == <<"f","a","l","s","e">>

\* The number of characters before run i of t.
RECURSIVE RunStart(_, _)
RunStart(t, i) == IF i <= 1 THEN 0 ELSE RunStart(t, i - 1) + t[i - 1].n

\* The run holding the character at (0-based) position p; 0 past the end.
RunIndexAt(t, p) ==
  LET I == {i \in 1..Len(t) : RunStart(t, i) <= p /\ p < RunStart(t, i) + t[i].n}
  IN IF I = {} THEN 0 ELSE CHOOSE i \in I : TRUE

CharAt(t, p) == LET i == RunIndexAt(t, p) IN IF i = 0 THEN "EOF" ELSE t[i].c

\* String.prototype.slice(a, b).
TSub(t, a, b) == TTake(TDrop(t, a), b - a)

\* The position of the first character at or after p that is not a blank.
SkipWs(t, p) ==
  LET i == RunIndexAt(t, p)
  IN IF i # 0 /\ t[i].c = " " THEN RunStart(t, i) + t[i].n ELSE p

\* The position of the first character c at or after p; -1 when none.
FindChar(t, c, p) ==
  LET i == RunIndexAt(t, p)
      J == {j \in 1..Len(t) : j > i /\ t[j].c = c}
  IN IF i = 0 THEN -1
     ELSE IF t[i].c = c THEN p
     ELSE IF J = {} THEN -1
     ELSE RunStart(t, CHOOSE j \in J : \A m \in J : j <= m)

\* The position after the digits that begin at p.
RECURSIVE SkipDigits(_, _)
SkipDigits(t, p) ==
  LET i == RunIndexAt(t, p)
  IN IF i # 0 /\ t[i].c \in DigitSet THEN SkipDigits(t, RunStart(t, i) + t[i].n) ELSE p

ParseFail == [ok |-> FALSE, v |-> Undefined, p |-> 0]
ParseOk(v, p) == [ok |-> TRUE, v |-> v, p |-> p]

\* A string literal whose opening quote is at p.
StringTo(t, p, q) ==
  IF CharAt(t, p) # "\"" \/ q < 0 THEN ParseFail
  ELSE IF TContains(TSub(t, p + 1, q), <<Run("\\", 1)>>) THEN ParseFail
  ELSE ParseOk(JStr(TSub(t, p + 1, q)), q + 1)

ParseString(t, p) == StringTo(t, p, FindChar(t, "\"", p + 1))

RECURSIVE ParseValue(_, _), ParseElements(_, _, _), ParseMembers(_, _, _)

\* A value that begins at p (blanks before it skipped by the caller).
ParseValue(t, p) ==
  LET c == CharAt(t, p)
  IN CASE c = "\"" -> ParseString(t, p)
       [] c \in DigitSet ->
            LET q == IF c = "0" THEN p + 1 ELSE SkipDigits(t, p)
            IN ParseOk(JNum(TSub(t, p, q)), q)
       [] c = "n" -> IF TSub(t, p, p + 4) = Runs(S_null) THEN ParseOk(JNull, p + 4) ELSE ParseFail
       [] c = "t" -> IF TSub(t, p, p + 4) = Runs(S_true)
                       THEN ParseOk(JBool(Runs(S_true)), p + 4) ELSE ParseFail
       [] c = "f" -> IF TSub(t, p, p + 5) = Runs(S_false)
                       THEN ParseOk(JBool(Runs(S_false)), p + 5) ELSE ParseFail
       [] c = "[" ->
            LET q == SkipWs(t, p + 1)
            IN IF CharAt(t, q) = "]" THEN ParseOk(JV("arr", <<>>, <<>>), q + 1)
               ELSE ParseElements(t, q, <<>>)
       [] c = "{" ->
            LET q == SkipWs(t, p + 1)
            IN IF CharAt(t, q) = "}" THEN ParseOk(JV("obj", <<>>, <<>>), q + 1)
               ELSE ParseMembers(t, q, <<>>)
       [] OTHER -> ParseFail

\* The elements of an array from p on, after those of acc; r is the element
\* at p and q the position of what follows it.
ElementsAfter(t, acc, r, q) ==
  IF ~r.ok THEN ParseFail
  ELSE IF CharAt(t, q) = "]"
    THEN ParseOk(JV("arr", <<>>, Append(acc, [k |-> <<>>, v |-> r.v])), q + 1)
  ELSE IF CharAt(t, q) = ","
    THEN ParseElements(t, SkipWs(t, q + 1), Append(acc, [k |-> <<>>, v |-> r.v]))
  ELSE ParseFail

ElementsFrom(t, acc, r) == ElementsAfter(t, acc, r, SkipWs(t, r.p))

ParseElements(t, p, acc) == ElementsFrom(t, acc, ParseValue(t, p))

\* The members of an object from p on, after those of acc; k is the name at
\* p, r the value after its colon and q the position of what follows it.
MembersAfter(t, acc, k, r, q) ==
  IF ~r.ok THEN ParseFail
  ELSE IF CharAt(t, q) = "}"
    THEN ParseOk(JV("obj", <<>>, Append(acc, [k |-> k.v.s, v |-> r.v])), q + 1)
  ELSE IF CharAt(t, q) = ","
    THEN ParseMembers(t, SkipWs(t, q + 1), Append(acc, [k |-> k.v.s, v |-> r.v]))
  ELSE ParseFail

MemberValue(t, acc, k, r) == MembersAfter(t, acc, k, r, SkipWs(t, r.p))

MemberName(t, acc, k, colon) ==
  IF ~k.ok \/ CharAt(t, colon) # ":" THEN ParseFail
  ELSE MemberValue(t, acc, k, ParseValue(t, SkipWs(t, colon + 1)))

MembersFrom(t, acc, k) == MemberName(t, acc, k, SkipWs(t, k.p))

ParseMembers(t, p, acc) == MembersFrom(t, acc, ParseString(t, p))

\* The whole text is one value, with blanks around it at most.
WholeText(data, r) == IF r.ok /\ SkipWs(data, r.p) = TLen(data) THEN r ELSE ParseFail

\* JSON.parse(data): ok is FALSE where it throws SyntaxError.
JSONParse(data) == WholeText(data, ParseValue(data, SkipWs(data, 0)))

\* v[key] for a value that is neither null nor undefined (where it throws):
\* the last member of that name of an object, undefined otherwise.
GetProp(v, key) ==
  LET I == {i \in 1..Len(v.kids) : v.kids[i].k = key}
  IN IF v.t # "obj" \/ I = {} THEN Undefined
     ELSE v.kids[CHOOSE i \in I : \A m \in I : m <= i].v

Nullish(v) == v.t \in {"null", "undef"}

\* Whether a value is truthy.
Truthy(v) ==
  CASE v.t \in {"null", "undef"} -> FALSE
    [] v.t = "bool" -> v.s = Runs(S_true)
    [] v.t = "num" -> v.s # Runs(<<"0">>)
    [] v.t = "str" -> v.s # <<>>
    [] OTHER -> TRUE


\* String(v), as `new Error(v)` and template literals convert a value.
RECURSIVE ToStringJS(_), JoinElements(_)
ToStringJS(v) ==
  CASE v.t = "undef" -> Runs(<<"u","n","d","e","f","i","n","e","d">>)
    [] v.t = "null" -> Runs(S_null)
    [] v.t = "obj" -> Runs(<<"[","o","b","j","e","c","t"," ","O","b","j","e","c","t","]">>)
    [] v.t = "arr" -> JoinElements(v.kids)
    [] OTHER -> v.s

\* Array.prototype.join(","): null and undefined elements give "".
JoinElements(kids) ==
  IF kids = <<>> THEN <<>>
  ELSE LET h == IF Nullish(Head(kids).v) THEN <<>> ELSE ToStringJS(Head(kids).v)
       IN IF Len(kids) = 1 THEN h
          ELSE TCat(TCat(h, <<Run(",", 1)>>), JoinElements(Tail(kids)))

\* Text -> Str, for the short texts that go into a path.
RECURSIVE Expand(_)
Expand(t) ==
  IF t = <<>> THEN <<>>
  ELSE IF Head(t).n = 1 THEN <<Head(t).c>> \o Expand(Tail(t))
  ELSE <<Head(t).c>> \o Expand(<<Run(Head(t).c, Head(t).n - 1)>> \o Tail(t))

\* n copies of the text t.
RECURSIVE Repeat(_, _)
Repeat(t, n) == IF n <= 0 THEN <<>> ELSE TCat(t, Repeat(t, n - 1))

\* The body of a JSON string literal: " and \ escaped, all else as it is.
RECURSIVE Escape(_)
Escape(t) ==
  IF t = <<>> THEN <<>>
  ELSE IF Head(t).c = "\""
         THEN TCat(Repeat(<<Run("\\", 1), Run("\"", 1)>>, Head(t).n), Escape(Tail(t)))
       ELSE IF Head(t).c = "\\"
         THEN TCat(<<Run("\\", 2 * Head(t).n)>>, Escape(Tail(t)))
       ELSE TCat(<<Head(t)>>, Escape(Tail(t)))

Quote(t) == TCat(TCat(<<Run("\"", 1)>>, Escape(t)), <<Run("\"", 1)>>)

\* The members JSON.stringify writes: those whose value is not undefined.
RECURSIVE Defined(_)
Defined(kids) ==
  IF kids = <<>> THEN <<>>
  ELSE IF Head(kids).v.t = "undef" THEN Defined(Tail(kids))
  ELSE <<Head(kids)>> \o Defined(Tail(kids))

\* The last member of each name, in the order of the first: the properties of
\* the object JSON.parse builds from members that repeat a name.
RECURSIVE Properties(_, _)
Properties(kids, i) ==
  IF i > Len(kids) THEN <<>>
  ELSE IF \E j \in 1..(i - 1) : kids[j].k = kids[i].k THEN Properties(kids, i + 1)
  ELSE LET I == {j \in i..Len(kids) : kids[j].k = kids[i].k}
           last == CHOOSE j \in I : \A m \in I : m <= j
       IN <<kids[last]>> \o Properties(kids, i + 1)

\* JSON.stringify(v, null, gap) at nesting depth `level`, for gap 0 or 2 and a
\* value that is not undefined.
RECURSIVE Stringify(_, _, _), StringifyKids(_, _, _, _)
Stringify(v, gap, level) ==
  LET nl == IF gap = 0 THEN <<>> ELSE TCat(<<Run("\n", 1)>>, Repeat(<<Run(" ", 1)>>, gap * (level + 1)))
      close == IF gap = 0 THEN <<>> ELSE TCat(<<Run("\n", 1)>>, Repeat(<<Run(" ", 1)>>, gap * level))
      kids == IF v.t = "obj" THEN Defined(Properties(v.kids, 1)) ELSE v.kids
  IN CASE v.t = "null" -> Runs(S_null)
       [] v.t = "str" -> Quote(v.s)
       [] v.t \in {"num", "bool"} -> v.s
       [] v.t = "arr" ->
            IF kids = <<>> THEN Runs(<<"[", "]">>)
            ELSE TCat(TCat(TCat(<<Run("[", 1)>>, nl), StringifyKids(kids, FALSE, gap, level)),
                      TCat(close, <<Run("]", 1)>>))
       [] v.t = "obj" ->
            IF kids = <<>> THEN Runs(<<"{", "}">>)
            ELSE TCat(TCat(TCat(<<Run("{", 1)>>, nl), StringifyKids(kids, TRUE, gap, level)),
                      TCat(close, <<Run("}", 1)>>))

\* The members or elements, each at depth level + 1, separated by commas.
StringifyKids(kids, named, gap, level) ==
  LET nl == IF gap = 0 THEN <<>> ELSE TCat(<<Run("\n", 1)>>, Repeat(<<Run(" ", 1)>>, gap * (level + 1)))
      h == Head(kids)
      name == IF named THEN TCat(Quote(h.k), IF gap = 0 THEN <<Run(":", 1)>> ELSE Runs(<<":", " ">>))
              ELSE <<>>
      val == IF h.v.t = "undef" THEN Runs(S_null) ELSE Stringify(h.v, gap, level + 1)
      one == TCat(name, val)
  IN IF Len(kids) = 1 THEN one
     ELSE TCat(TCat(TCat(one, <<Run(",", 1)>>), nl), StringifyKids(Tail(kids), named, gap, level))

\* Buffer.prototype.toString() of one chunk: UTF-8 decoding of its bytes.  A
\* byte is an ASCII character, or "C3" or "A9", the two bytes of U+00E9; a
\* byte that does not form a character decodes to U+FFFD.
RECURSIVE Utf8Decode(_)
Utf8Decode(b) ==
  IF b = <<>> THEN <<>>
  ELSE LET h == Head(b)
           bad(n) == IF n <= 0 THEN <<>> ELSE <<Run("U+FFFD", n)>>
       IN IF h.c = "C3" /\ Len(b) > 1 /\ b[2].c = "A9"
            THEN TCat(TCat(bad(h.n - 1), <<Run("U+00E9", 1)>>),
                      TCat(bad(b[2].n - 1), Utf8Decode(Tail(Tail(b)))))
          ELSE IF h.c \in {"C3", "A9"} THEN TCat(bad(h.n), Utf8Decode(Tail(b)))
          ELSE TCat(<<h>>, Utf8Decode(Tail(b)))

(***************************************************************************)
(* Bounds of the model                                                     *)
(***************************************************************************)

\* The most chunks a response body arrives in.
MaxChunks == 6

(***************************************************************************)
(* Configuration (index.js 8-17)                                           *)
(***************************************************************************)

MAX_RESPONSE_SIZE == 5 * 1024 * 1024
DEFAULT_TIMEOUT == 600000
ERROR_BODY_LIMIT == 300
HTTP_ERROR_STATUS == 400

S_version == <<"1",".","0",".","0">>
S_defaultUrl == <<"h","t","t","p","s",":","/","/","c","l","o","u","d","a","g","e","n","t",".","m","e","t","a","l","t","o","r","q","u","e",".","d","e","v">>
S_httpsColon == <<"h","t","t","p","s",":">>

\* The values of CLOUD_AGENT_API_KEY: unset (or empty), or a key.
S_key == <<"c","a","_","K">>
EnvKeys == {<<>>, S_key}

\* The values of CLOUD_AGENT_URL: unset, https with a port and a trailing "/",
\* https with two trailing "/", plain http, ftp, and a string that is no URL.
EnvUrls ==
  {<<>>, <<"h","t","t","p","s",":","/","/","h",":","8","4","4","3","/">>,
   <<"h","t","t","p","s",":","/","/","h","/","/">>, <<"h","t","t","p",":","/","/","h">>,
   <<"f","t","p",":","/","/","h">>, <<"h">>}

\* x || d on strings.
OrDefault(x, d) == IF x = <<>> THEN d ELSE x

\* s.replace(/\/$/, "")
StripTrailingSlash(s) ==
  IF s # <<>> /\ s[Len(s)] = "/" THEN SubSeq(s, 1, Len(s) - 1) ELSE s

VARIABLES
  env,       \* process.env: [CLOUD_AGENT_API_KEY, CLOUD_AGENT_URL]
  API_KEY,   \* index.js 12
  BASE_URL,  \* index.js 13
  call       \* the tool invocations: call[c] is the state of invocation slot c

vars == <<env, API_KEY, BASE_URL, call>>

CallIds == {1}

(***************************************************************************)
(* request() (index.js 19-71)                                              *)
(***************************************************************************)

S_msgInsecure == <<"R","e","f","u","s","i","n","g"," ","t","o"," ","s","e","n","d"," ","A","P","I"," ","k","e","y"," ","o","v","e","r"," ","i","n","s","e","c","u","r","e"," ","H","T","T","P","."," ","U","s","e"," ","H","T","T","P","S",".">>
S_msgTooLarge == <<"R","e","s","p","o","n","s","e"," ","t","o","o"," ","l","a","r","g","e">>
S_msgTimeout == <<"R","e","q","u","e","s","t"," ","t","i","m","e","d"," ","o","u","t">>
S_msgInvalidUrl == <<"I","n","v","a","l","i","d"," ","U","R","L">>
S_msgHangUp == <<"s","o","c","k","e","t"," ","h","a","n","g"," ","u","p">>
S_msgRefused == <<"c","o","n","n","e","c","t"," ","E","C","O","N","N","R","E","F","U","S","E","D">>
S_HTTP == <<"H","T","T","P"," ">>
S_colonSpace == <<":"," ">>
S_error == <<"e","r","r","o","r">>
S_contentType == <<"a","p","p","l","i","c","a","t","i","o","n","/","j","s","o","n">>
S_userAgent == <<"m","c","p","-","s","e","r","v","e","r","-","c","l","o","u","d","-","a","g","e","n","t","/">>
S_bearer == <<"B","e","a","r","e","r"," ">>

NoPromise == [state |-> "none", msg |-> <<>>, payload |-> Undefined]
Pending == [state |-> "pending", msg |-> <<>>, payload |-> Undefined]

NoReq ==
  [made |-> FALSE, mod |-> "none", hostname |-> <<>>, port |-> <<>>, path |-> <<>>,
   method |-> "none", headers |-> <<>>, timeout |-> 0, written |-> <<>>,
   ended |-> FALSE, destroyed |-> FALSE, errored |-> FALSE]

NoRes == [state |-> "none", statusCode |-> 0, size |-> 0, data |-> <<>>, chunks |-> 0]

\* A reject that overwrites a settled result: ResultSettlesOnce does not hold
\* of it.
RejectAgain(s, msg) ==
  IF s.promise.state \in {"pending", "resolved", "rejected"}
    THEN [s EXCEPT !.promise = [state |-> "rejected", msg |-> msg, payload |-> Undefined]]
    ELSE s

\* reject(new Error(msg)): a promise settles once; a later call changes nothing.
Reject(s, msg) ==
  IF s.promise.state = "pending"
    THEN [s EXCEPT !.promise = [state |-> "rejected", msg |-> msg, payload |-> Undefined]]
    ELSE s

\* resolve(v)
Resolve(s, v) ==
  IF s.promise.state = "pending"
    THEN [s EXCEPT !.promise = [state |-> "resolved", msg |-> <<>>, payload |-> v]]
    ELSE s

\* req.destroy()
Destroy(s) == [s EXCEPT !.req.destroyed = TRUE]

\* A guard that tests for the absence of the key: InsecureRefused does not
\* hold of it.
InsecureNoKey(isHttps) == ~isHttps /\ API_KEY = <<>>

\* The guard of index.js 25.
Insecure(isHttps) == ~isHttps /\ API_KEY # <<>>

\* Headers without the key: KeyInHeaderOnly does not hold of them.
HeadersNoAuth ==
  <<[name |-> "Content-Type", value |-> S_contentType],
    [name |-> "User-Agent", value |-> S_userAgent \o S_version]>>

\* index.js 31-35
Headers ==
  <<[name |-> "Content-Type", value |-> S_contentType],
    [name |-> "User-Agent", value |-> S_userAgent \o S_version]>>
  \o (IF API_KEY # <<>> THEN <<[name |-> "Authorization", value |-> S_bearer \o API_KEY]>>
      ELSE <<>>)

\* A port taken from the scheme alone: DestinationIsBaseUrl does not hold of it.
OptsPortOfScheme(parsed, isHttps) == IF isHttps THEN <<"4","4","3">> ELSE <<"8","0">>

\* parsed.port || (isHttps ? 443 : 80)
OptsPort(parsed, isHttps) ==
  OrDefault(parsed.port, IF isHttps THEN <<"4","4","3">> ELSE <<"8","0">>)

\* `${BASE_URL}${urlPath}`
FullUrl(urlPath) == BASE_URL \o urlPath

\* req.write(text): what is written after req.end() is not sent (the request
\* raises "write after end").
Write(req, text) == IF req.ended THEN req ELSE [req EXCEPT !.written = Append(@, text)]

\* req.end()
EndRequest(req) == [req EXCEPT !.ended = TRUE]

\* A request that is ended before its body is written: BodyWrittenOnce does
\* not hold of it.
SendEndFirst(req, body) ==
  IF Truthy(body) THEN Write(EndRequest(req), Stringify(body, 0, 0)) ELSE EndRequest(req)

\* if (body) req.write(JSON.stringify(body)); req.end(); (index.js 68-69)
Send(req, body) ==
  EndRequest(IF Truthy(body) THEN Write(req, Stringify(body, 0, 0)) ELSE req)

\* The characters Node accepts in a header value: a tab and the characters
\* from the space on; http.request throws for a value with any other.
ValidHeaderValue(v) == \A i \in 1..Len(v) : v[i] \notin {"\n", "\r"}

\* The executor of the promise from `parsed` on (index.js 23-69); `new URL`
\* throws in the executor, which rejects the promise.
Executor(p, method, parsed, isHttps, body) ==
  IF ~parsed.ok THEN Reject(p, Runs(S_msgInvalidUrl))
     ELSE IF Insecure(isHttps) THEN Reject(p, Runs(S_msgInsecure))
     ELSE IF \E i \in 1..Len(Headers) : ~ValidHeaderValue(Headers[i].value)
       THEN Reject(p, Runs(
              <<"I","n","v","a","l","i","d"," ","c","h","a","r","a","c","t","e","r"," ","i","n"," ","h","e","a","d","e","r"," ","c","o","n","t","e","n","t"," ","[","\"","A","u","t","h","o","r","i","z","a","t","i","o","n","\"","]">>))
     ELSE [p EXCEPT
             !.reqs = @ + 1,
             !.req = Send([made |-> TRUE,
                           mod |-> IF isHttps THEN "https" ELSE "http",
                           hostname |-> parsed.hostname,
                           port |-> OptsPort(parsed, isHttps),
                           path |-> parsed.pathname \o parsed.search,
                           method |-> method,
                           headers |-> Headers,
                           timeout |-> DEFAULT_TIMEOUT,
                           written |-> <<>>,
                           ended |-> FALSE,
                           destroyed |-> FALSE,
                           errored |-> FALSE], body)]

\* isHttps of index.js 23.
Parsed(p, method, parsed, body) ==
  Executor(p, method, parsed, parsed.protocol = S_httpsColon, body)

\* request(method, urlPath, body) up to its return: the promise is created,
\* and either rejected at once or left pending with the request sent.
request(s, method, urlPath, body) ==
  Parsed([s EXCEPT !.promise = Pending], method, ParseURL(FullUrl(urlPath)), body)

\* The response callback (index.js 46-48): data = "", size = 0.
OnResponse(s, status) ==
  [s EXCEPT !.res = [state |-> "open", statusCode |-> status, size |-> 0, data |-> <<>>,
                     chunks |-> 0]]

\* A ceiling that 5 MiB itself exceeds: ExactCeilingAccepted does not hold of
\* it.
OverLimitAtCeiling(size) == size >= MAX_RESPONSE_SIZE

\* size > MAX_RESPONSE_SIZE
OverLimit(size) == size > MAX_RESPONSE_SIZE

\* A 'data' handler that rejects and leaves the request alone:
\* OversizeDestroysAndFails does not hold of it.
OnDataNoDestroy(s, c) ==
  LET size == s.res.size + TLen(c)
      counted == [s EXCEPT !.res.size = size, !.res.chunks = @ + 1]
  IN IF OverLimit(size) THEN Reject(counted, Runs(S_msgTooLarge))
     ELSE [counted EXCEPT !.res.data = TCat(@, Utf8Decode(c))]

\* A 'data' handler that appends the chunk before it looks at the count:
\* BufferBounded does not hold of it.
OnDataAppendFirst(s, c) ==
  LET size == s.res.size + TLen(c)
      counted == [s EXCEPT !.res.size = size, !.res.chunks = @ + 1,
                           !.res.data = TCat(@, Utf8Decode(c))]
  IN IF OverLimit(size) THEN Reject(Destroy(counted), Runs(S_msgTooLarge)) ELSE counted

\* res.on("data", ...) (index.js 49-53) for a chunk c of bytes.
OnData(s, c) ==
  LET size == s.res.size + TLen(c)
      counted == [s EXCEPT !.res.size = size, !.res.chunks = @ + 1]
  IN IF OverLimit(size) THEN Reject(Destroy(counted), Runs(S_msgTooLarge))
     ELSE [counted EXCEPT !.res.data = TCat(@, Utf8Decode(c))]

\* `HTTP ${res.statusCode}`
HttpStatusText(status) == Runs(S_HTTP \o NumStr(status))

\* The message of index.js 57 for a parsed body that is not null.
JsonErrorMessage(json, status) ==
  LET e == GetProp(json, Runs(S_error))
  IN IF Truthy(e) THEN ToStringJS(e) ELSE HttpStatusText(status)

\* A message that takes the raw body whole: RawErrorTruncated does not hold
\* of it.
RawErrorMessageWhole(data, status) ==
  TCat(TCat(HttpStatusText(status), Runs(S_colonSpace)), data)

\* The message of index.js 60.
RawErrorMessage(data, status) ==
  TCat(TCat(HttpStatusText(status), Runs(S_colonSpace)), TTake(data, ERROR_BODY_LIMIT))

\* The try and catch of the 'end' listener for the outcome r of JSON.parse.
\* Reading json.error of null throws inside the try block, which the catch
\* clause handles like a SyntaxError.
Settle(ended, r, status, isError) ==
  IF r.ok /\ ~(isError /\ Nullish(r.v))
    THEN IF isError THEN Reject(ended, JsonErrorMessage(r.v, status))
         ELSE Resolve(ended, r.v)
    ELSE IF isError THEN Reject(ended, RawErrorMessage(ended.res.data, status))
         ELSE Resolve(ended, JStr(ended.res.data))

\* An 'end' listener for which the status 400 is no error: SuccessBelow400
\* does not hold of it.
OnEndAbove(s) ==
  Settle([s EXCEPT !.res.state = "ended"], JSONParse(s.res.data), s.res.statusCode,
         s.res.statusCode > HTTP_ERROR_STATUS)

\* res.on("end", ...) (index.js 54-63)
OnEnd(s) ==
  Settle([s EXCEPT !.res.state = "ended"], JSONParse(s.res.data), s.res.statusCode,
         s.res.statusCode >= HTTP_ERROR_STATUS)

\* req.on("error", reject) (index.js 66)
OnError(s, msg) == Reject([s EXCEPT !.req.errored = TRUE], msg)

\* A 'timeout' handler that rejects and leaves the request alone:
\* TimeoutDestroysAndFails does not hold of it.
OnTimeoutNoDestroy(s) == Reject(s, Runs(S_msgTimeout))

\* req.on("timeout", ...) (index.js 67)
OnTimeout(s) == Reject(Destroy(s), Runs(S_msgTimeout))

(***************************************************************************)
(* The tool handlers (index.js 73-329)                                     *)
(***************************************************************************)

S_noKey == <<"E","r","r","o","r",":"," ","C","L","O","U","D","_","A","G","E","N","T","_","A","P","I","_","K","E","Y"," ","e","n","v","i","r","o","n","m","e","n","t"," ","v","a","r","i","a","b","l","e"," ","i","s"," ","r","e","q","u","i","r","e","d",".","\n","\n","G","e","t"," ","a","n"," ","A","P","I"," ","k","e","y"," ","f","r","o","m"," ","y","o","u","r"," ","C","l","o","u","d"," ","A","g","e","n","t"," ","w","e","b"," ","w","o","r","k","s","p","a","c","e"," ","a","t"," ","/","a","u","t","h","/","a","p","i","-","k","e","y",".","\n","A","P","I"," ","k","e","y","s"," ","u","s","e"," ","t","h","e"," ","c","a","_","*"," ","p","r","e","f","i","x",".">>
S_provide == <<"E","r","r","o","r",":"," ","P","r","o","v","i","d","e"," ","e","i","t","h","e","r"," ","'","f","i","l","e","'"," ","o","r"," ","'","f","e","a","t","u","r","e","'"," ","t","o"," ","t","e","s","t",".">>
S_errorPrefix == <<"E","r","r","o","r",":"," ">>

S_pr_url == <<"p","r","_","u","r","l">>
S_repo == <<"r","e","p","o">>
S_response == <<"r","e","s","p","o","n","s","e">>
S_cost_usd == <<"c","o","s","t","_","u","s","d">>
S_duration_ms == <<"d","u","r","a","t","i","o","n","_","m","s">>
S_sessions == <<"s","e","s","s","i","o","n","s">>

ArgNames ==
  {"prompt", "pr_url", "post_comments", "question", "repo", "file", "feature", "repos",
   "type", "limit", "status", "slug", "inputs", "days"}

\* Arguments are JSON values; an argument that is not given is undefined.
NoArgs == [f \in ArgNames |-> Undefined]

Member(k, v) == [k |-> Runs(k), v |-> v]
Obj(members) == JV("obj", <<>>, members)

\* a || b
Or(a, b) == IF Truthy(a) THEN a ELSE b

\* A gate that takes a key of whitespace for no key: WhitespaceKeyConfigured
\* does not hold of it.
GateTrimmed(tool) == \A i \in 1..Len(API_KEY) : API_KEY[i] \in {" ", "\t", "\n", "\r"}

\* No gate at all: OnlyHttpsWithKey does not hold of it.
GateOpen(tool) == FALSE

\* A gate that get_usage lacks: NoKeyNoRequest does not hold of it.
GateButUsage(tool) == tool # "get_usage" /\ API_KEY = <<>>

\* `if (!API_KEY) return noKeyError();`, the first statement of every handler.
Gate(tool) == API_KEY = <<>>

Method(tool) ==
  IF tool \in {"list_sessions", "list_playbooks", "get_usage"} THEN "GET" ELSE "POST"

\* `/api/playbooks/${encodeURIComponent(slug)}/run` (index.js 293)
RunPlaybookPath(slug) ==
  <<"/","a","p","i","/","p","l","a","y","b","o","o","k","s","/">> \o encodeURIComponent(Expand(slug.s)) \o <<"/","r","u","n">>

\* A path that always has the status parameter: SessionsQuery does not hold
\* of it.
ListSessionsPathWithStatus(limit, status) ==
  <<"/","a","p","i","/","s","e","s","s","i","o","n","s","?","l","i","m","i","t","=">> \o Expand(ToStringJS(Or(limit, JNum(Runs(<<"2","0">>)))))
  \o <<"&","s","t","a","t","u","s","=">> \o Expand(ToStringJS(status))

\* index.js 243-244
ListSessionsPath(limit, status) ==
  <<"/","a","p","i","/","s","e","s","s","i","o","n","s","?","l","i","m","i","t","=">> \o Expand(ToStringJS(Or(limit, JNum(Runs(<<"2","0">>)))))
  \o (IF Truthy(status) THEN <<"&","s","t","a","t","u","s","=">> \o Expand(ToStringJS(status)) ELSE <<>>)

\* index.js 317
UsagePath(days) ==
  IF Truthy(days) THEN <<"/","a","p","i","/","u","s","a","g","e","?","d","a","y","s","=">> \o Expand(ToStringJS(days)) ELSE <<"/","a","p","i","/","u","s","a","g","e">>

\* The urlPath each handler passes to request().
UrlPath(tool, a) ==
  CASE tool = "run_task" -> <<"/","q","u","e","r","y">>
    [] tool = "review_pr" -> <<"/","r","e","v","i","e","w">>
    [] tool = "ask_codebase" -> <<"/","a","s","k">>
    [] tool = "generate_tests" -> <<"/","t","e","s","t">>
    [] tool = "security_scan" -> <<"/","s","c","a","n">>
    [] tool = "list_sessions" -> ListSessionsPath(a.limit, a.status)
    [] tool = "list_playbooks" -> <<"/","a","p","i","/","p","l","a","y","b","o","o","k","s">>
    [] tool = "run_playbook" -> RunPlaybookPath(a.slug)
    [] tool = "get_usage" -> UsagePath(a.days)

\* The body each handler passes to request(); undefined for a GET.
Body(tool, a) ==
  CASE tool = "run_task" -> Obj(<<Member(<<"p","r","o","m","p","t">>, a.prompt)>>)
    [] tool = "review_pr" ->
         Obj(<<Member(S_pr_url, a.pr_url),
               Member(<<"p","o","s","t","_","r","e","v","i","e","w">>,
                      JBool(Runs(IF a.post_comments = JBool(Runs(S_true)) THEN S_true ELSE S_false)))>>)
    [] tool = "ask_codebase" -> Obj(<<Member(<<"q","u","e","s","t","i","o","n">>, a.question), Member(S_repo, a.repo)>>)
    [] tool = "generate_tests" ->
         Obj(<<Member(<<"f","i","l","e">>, a.file), Member(<<"f","e","a","t","u","r","e">>, a.feature), Member(S_repo, a.repo)>>)
    [] tool = "security_scan" ->
         Obj(<<Member(<<"r","e","p","o","s">>, a.repos), Member(<<"t","y","p","e">>, Or(a.type, JStr(Runs(<<"a","l","l">>))))>>)
    [] tool = "run_playbook" -> Obj(<<Member(S_repo, a.repo), Member(<<"i","n","p","u","t","s">>, a.inputs)>>)
    [] OTHER -> Undefined

\* The handler returns { content: [{ type: "text", text }] }.
Return(s, text) == [s EXCEPT !.pc = "returned", !.out = text]

\* A handler of generate_tests that does not look at file and feature:
\* OneRequestPerInvocation does not hold of it.
HandleNoTarget(s, tool, a) ==
  LET inv == [s EXCEPT !.tool = tool, !.args = a]
  IN IF Gate(tool) THEN Return(inv, JStr(Runs(S_noKey)))
     ELSE [request(inv, Method(tool), UrlPath(tool, a), Body(tool, a)) EXCEPT !.pc = "awaiting"]

\* A handler that looks at file and feature before it looks at the key:
\* TestsNeedTarget does not hold of it.
HandleTargetFirst(s, tool, a) ==
  LET inv == [s EXCEPT !.tool = tool, !.args = a]
  IN IF tool = "generate_tests" /\ ~Truthy(Or(a.file, a.feature))
       THEN Return(inv, JStr(Runs(S_provide)))
     ELSE IF Gate(tool) THEN Return(inv, JStr(Runs(S_noKey)))
     ELSE [request(inv, Method(tool), UrlPath(tool, a), Body(tool, a)) EXCEPT !.pc = "awaiting"]

\* A handler from its call to the await of request() (or to its return).
Handle(s, tool, a) ==
  LET inv == [s EXCEPT !.tool = tool, !.args = a]
  IN IF Gate(tool) THEN Return(inv, JStr(Runs(S_noKey)))
     ELSE IF tool = "generate_tests" /\ ~Truthy(Or(a.file, a.feature))
       THEN Return(inv, JStr(Runs(S_provide)))
     ELSE [request(inv, Method(tool), UrlPath(tool, a), Body(tool, a)) EXCEPT !.pc = "awaiting"]

Threw(prop) ==
  [threw |-> TRUE, msg |-> TCat(TCat(Runs(<<"C","a","n","n","o","t"," ","r","e","a","d"," ","p","r","o","p","e","r","t","i","e","s"," ","o","f"," ","n","u","l","l"," ","(","r","e","a","d","i","n","g"," ","'">>), Runs(prop)), Runs(<<"'",")">>)),
   text |-> Undefined]
Text(v) == [threw |-> FALSE, msg |-> <<>>, text |-> v]

\* index.js 104-109 and 192-197
Summary(result) ==
  IF Nullish(result) THEN Threw(S_response)
  ELSE Text(JStr(Stringify(
         Obj(<<Member(S_response, GetProp(result, Runs(S_response))),
               Member(S_cost_usd, GetProp(result, Runs(S_cost_usd))),
               Member(S_duration_ms, GetProp(result, Runs(S_duration_ms))),
               Member(S_pr_url, Or(GetProp(result, Runs(S_pr_url)), JNull))>>), 2, 0)))

\* result.<field> || JSON.stringify(result, null, 2) (index.js 137, 162)
FieldOrAll(result, field) ==
  IF Nullish(result) THEN Threw(field)
  ELSE LET v == GetProp(result, Runs(field))
       IN IF Truthy(v) THEN Text(v) ELSE Text(JStr(Stringify(result, 2, 0)))

\* The text a handler builds from the payload of a resolved request.
Format(tool, result) ==
  CASE tool \in {"run_task", "generate_tests"} -> Summary(result)
    [] tool = "review_pr" -> FieldOrAll(result, <<"r","e","v","i","e","w">>)
    [] tool = "ask_codebase" -> FieldOrAll(result, <<"a","n","s","w","e","r">>)
    [] tool = "list_sessions" ->
         IF Nullish(result) THEN Threw(S_sessions)
         ELSE Text(JStr(Stringify(Or(GetProp(result, Runs(S_sessions)), result), 2, 0)))
    [] OTHER -> Text(JStr(Stringify(result, 2, 0)))

\* A failure text that is the message alone: FailurePrefixed does not hold of
\* it.
ErrorTextBare(msg) == JStr(msg)

\* `Error: ${e.message}`
ErrorText(msg) == JStr(TCat(Runs(S_errorPrefix), msg))

\* The try block returns the text, or what it threw reaches the catch clause.
Formatted(s, f) == IF f.threw THEN Return(s, ErrorText(f.msg)) ELSE Return(s, f.text)

\* A handler from the settling of the awaited promise to its return: the
\* try block's return, or the catch clause's.
Continue(s) ==
  IF s.promise.state = "rejected" THEN Return(s, ErrorText(s.promise.msg))
  ELSE Formatted(s, Format(s.tool, s.promise.payload))

(***************************************************************************)
(* Inputs                                                                  *)
(***************************************************************************)

Num(n) == JNum(Runs(NumStr(n)))
Txt(s) == JStr(Runs(s))

Slugs ==
  {<<"b","u","g","-","t","r","i","a","g","e">>, <<"m","y"," ","p","l","a","y","b","o","o","k","/","v","2">>, <<".",".">>, <<".">>, <<"a","\\","b">>, <<"%","2","e","%","2","e">>, S_key}

A_repo == Txt(<<"a","/","b">>)

ToolInputs ==
  {[tool |-> "run_task", args |-> [NoArgs EXCEPT !.prompt = Txt(<<"x">>)]],
   [tool |-> "review_pr", args |-> [NoArgs EXCEPT !.pr_url = Txt(<<"h","t","t","p","s",":","/","/","e","v","i","l",".","e","x","a","m","p","l","e","/","p","u","l","l","/","1">>)]],
   [tool |-> "ask_codebase", args |-> [NoArgs EXCEPT !.question = Txt(<<"q">>), !.repo = A_repo]],
   [tool |-> "security_scan",
    args |-> [NoArgs EXCEPT !.repos = JV("arr", <<>>, <<[k |-> <<>>, v |-> A_repo]>>)]],
   [tool |-> "list_playbooks", args |-> NoArgs],
   [tool |-> "generate_tests", args |-> [NoArgs EXCEPT !.repo = A_repo]],
   [tool |-> "generate_tests", args |-> [NoArgs EXCEPT !.repo = A_repo, !.file = Txt(<<>>)]],
   [tool |-> "generate_tests", args |-> [NoArgs EXCEPT !.repo = A_repo, !.file = Txt(<<"f">>)]],
   [tool |-> "generate_tests", args |-> [NoArgs EXCEPT !.repo = A_repo, !.feature = Txt(<<"g">>)]],
   [tool |-> "list_sessions", args |-> NoArgs],
   [tool |-> "list_sessions", args |-> [NoArgs EXCEPT !.limit = Num(1)]],
   [tool |-> "list_sessions",
    args |-> [NoArgs EXCEPT !.limit = Num(50), !.status = Txt(<<"c","o","m","p","l","e","t","e","d">>)]],
   [tool |-> "list_sessions", args |-> [NoArgs EXCEPT !.limit = Num(100)]],
   [tool |-> "get_usage", args |-> NoArgs],
   [tool |-> "get_usage", args |-> [NoArgs EXCEPT !.days = Num(30)]]}
  \cup {[tool |-> "run_playbook", args |-> [NoArgs EXCEPT !.slug = Txt(sl), !.repo = A_repo]] :
          sl \in Slugs}

\* Status codes of a response.
Statuses == {200, 399, 400, 500}

\* Response bodies of one chunk.
Chunks ==
  {Runs(<<"{","\"","e","r","r","o","r","\"",":","\"","U","n","a","u","t","h","o","r","i","z","e","d","\"","}">>),
   Runs(<<"{","\"","e","r","r","o","r","\"",":","\"">> \o S_key \o <<"\"","}">>),
   TCat(TCat(Runs(<<"{","\"","e","r","r","o","r","\"",":","\"">>), <<Run("x", 400)>>), Runs(<<"\"","}">>)),
   Runs(<<"{","\"","o","k","\"",":","1","}">>),
   Runs(S_null),
   Runs(S_true),
   Runs(<<"1">>),
   Runs(<<"[","]">>),
   Runs(<<"\"","x","\"">>),
   Runs(<<"C3", "A9">>),
   <<Run("x", 1)>>,
   <<Run("x", MAX_RESPONSE_SIZE)>>}

\* The bodies a remote sends, each as the chunks it arrives in: nothing, one
\* chunk, a body split in two, one byte beyond the ceiling, and six chunks
\* of 1 MiB.
AllBodies ==
  {<<>>}
  \cup {<<ch>> : ch \in Chunks}
  \cup {<<Runs(<<"{","\"","o","k","\"">>), Runs(<<":","1","}">>)>>,
        <<Runs(<<"C3">>), Runs(<<"A9">>)>>,
        <<<<Run("x", MAX_RESPONSE_SIZE)>>, <<Run("x", 1)>>>>,
        <<<<Run("x", 1)>>, <<Run("x", MAX_RESPONSE_SIZE)>>>>,
        <<<<Run("x", MAX_RESPONSE_SIZE)>>, Runs(<<"{","\"","e","r","r","o","r","\"",":","\"","U","n","a","u","t","h","o","r","i","z","e","d","\"","}">>)>>,
        [i \in 1..6 |-> <<Run("x", 1024 * 1024)>>]}

Bodies == {b \in AllBodies : Len(b) <= MaxChunks}

\* The messages of the 'error' events of a request.
NetworkErrors == {Runs(S_msgHangUp), Runs(S_msgRefused)}

(***************************************************************************)
(* The state machine                                                       *)
(***************************************************************************)

Idle ==
  [pc |-> "idle", tool |-> "none", args |-> NoArgs, reqs |-> 0, req |-> NoReq, res |-> NoRes,
   wire |-> <<>>, got |-> <<>>, promise |-> NoPromise, out |-> Undefined]

\* Module load (index.js 12-13).
Init ==
  /\ env \in [CLOUD_AGENT_API_KEY : EnvKeys, CLOUD_AGENT_URL : EnvUrls]
  /\ API_KEY = OrDefault(env.CLOUD_AGENT_API_KEY, <<>>)
  /\ BASE_URL = StripTrailingSlash(OrDefault(env.CLOUD_AGENT_URL, S_defaultUrl))
  /\ call = [c \in CallIds |-> Idle]

\* The connection of a request can still deliver events.
Alive(s) ==
  s.req.made /\ ~s.req.destroyed /\ ~s.req.errored /\ s.res.state \in {"none", "open"}

\* The host calls a tool.
Invoke(c) ==
  /\ call[c].pc = "idle"
  /\ \E in \in ToolInputs : call' = [call EXCEPT ![c] = Handle(@, in.tool, in.args)]
  /\ UNCHANGED <<env, API_KEY, BASE_URL>>

\* The response headers arrive: the callback of mod.request runs.  The body
\* the remote sends is on the wire.
Response(c) ==
  /\ Alive(call[c]) /\ call[c].res.state = "none"
  /\ \E st \in Statuses, b \in Bodies :
       call' = [call EXCEPT ![c] = [OnResponse(call[c], st) EXCEPT !.wire = b]]
  /\ UNCHANGED <<env, API_KEY, BASE_URL>>

\* A 'data' listener whose counter is one for all calls: OwnCounterAndBuffer
\* does not hold of it.
DeliverShared(calls, c) ==
  [d \in DOMAIN calls |->
     IF d = c
       THEN [OnData(calls[c], Head(calls[c].wire)) EXCEPT
               !.wire = Tail(@), !.got = TCat(@, Head(calls[c].wire))]
       ELSE [calls[d] EXCEPT !.res.size = @ + TLen(Head(calls[c].wire))]]

\* The next chunk on the wire of call c goes to the 'data' listener of that
\* call's response: `data` and `size` are locals of the response callback
\* (index.js 47-48).  The bytes delivered so far are kept in `got`.
Deliver(calls, c) ==
  [calls EXCEPT ![c] = [OnData(calls[c], Head(calls[c].wire)) EXCEPT
                          !.wire = Tail(@), !.got = TCat(@, Head(calls[c].wire))]]

\* A 'data' event.  req.destroy() removes the response's 'data' listeners,
\* so none is delivered after it.
Data(c) ==
  /\ Alive(call[c]) /\ call[c].res.state = "open" /\ call[c].wire # <<>>
  /\ call' = Deliver(call, c)
  /\ UNCHANGED <<env, API_KEY, BASE_URL>>

\* The 'end' event: every chunk was delivered and the parser completed the
\* message, which it may also have done in the tick of a req.destroy() or of
\* a socket error, with the rest of the body dumped.
End(c) ==
  /\ call[c].req.made /\ call[c].res.state = "open"
  /\ call[c].wire = <<>> \/ ~Alive(call[c])
  /\ call' = [call EXCEPT ![c] = OnEnd(@)]
  /\ UNCHANGED <<env, API_KEY, BASE_URL>>

\* An 'error' event of the request: a socket error, or the "socket hang up"
\* of a request that was destroyed or closed before its response.
ReqError(c) ==
  /\ call[c].req.made /\ ~call[c].req.errored /\ call[c].res.state \in {"none", "open"}
  /\ call[c].req.destroyed => call[c].res.state = "none"
  /\ \E m \in NetworkErrors : call' = [call EXCEPT ![c] = OnError(@, m)]
  /\ UNCHANGED <<env, API_KEY, BASE_URL>>

\* A 'timeout' listener that destroys and rejects every call:
\* TimeoutOfOneCall does not hold of it.
ExpireAll(calls, c) == [d \in DOMAIN calls |-> OnTimeout(calls[d])]

\* The 'timeout' listener of call c: it closes over the req and the reject
\* of that call's executor (index.js 46, 67).
Expire(calls, c) == [calls EXCEPT ![c] = OnTimeout(@)]

\* The 'timeout' event of the request: the socket was idle for opts.timeout.
Timeout(c) ==
  /\ Alive(call[c])
  /\ call' = Expire(call, c)
  /\ UNCHANGED <<env, API_KEY, BASE_URL>>

\* The peer closes the connection with the response begun and not complete:
\* the response is aborted, it emits neither 'end' nor (with no listener
\* registered) 'error', and the request emits no 'error'.
Close(c) ==
  /\ Alive(call[c]) /\ call[c].res.state = "open"
  /\ call' = [call EXCEPT ![c].res.state = "aborted"]
  /\ UNCHANGED <<env, API_KEY, BASE_URL>>

\* A handler that forgets the key when its call has failed:
\* ConfigurationFrozen does not hold of it.
ResumeClearsKey(c) ==
  /\ call[c].pc = "awaiting" /\ call[c].promise.state \in {"resolved", "rejected"}
  /\ call' = [call EXCEPT ![c] = Continue(@)]
  /\ API_KEY' = (IF call[c].promise.state = "rejected" THEN <<>> ELSE API_KEY)
  /\ UNCHANGED <<env, BASE_URL>>

\* The awaited promise has settled: the handler runs to its return.
Resume(c) ==
  /\ call[c].pc = "awaiting" /\ call[c].promise.state \in {"resolved", "rejected"}
  /\ call' = [call EXCEPT ![c] = Continue(@)]
  /\ UNCHANGED <<env, API_KEY, BASE_URL>>

Next1(c) ==
  \/ Invoke(c) \/ Response(c) \/ Data(c) \/ End(c) \/ ReqError(c) \/ Timeout(c) \/ Close(c)
  \/ Resume(c)

Next == \E c \in CallIds : Next1(c)

Spec == Init /\ [][Next]_vars

(***************************************************************************)
(* Two smaller systems over the same handlers and events: one call under   *)
(* every kind of API key, and two calls in flight at once.                 *)
(***************************************************************************)

\* The values of CLOUD_AGENT_API_KEY: unset or empty, whitespace only (a
\* space, three spaces, a tab, a line feed), and a key.
WhiteKeys == {<<>>, <<" ">>, <<" "," "," ">>, <<"\t">>, <<"\n">>, S_key}

SmallInputs ==
  {[tool |-> "run_task", args |-> [NoArgs EXCEPT !.prompt = Txt(<<"x">>)]],
   [tool |-> "get_usage", args |-> NoArgs]}

SmallStatuses == {200, 500}

\* A JSON body in one chunk, a text body in one chunk, and 5 MiB followed by
\* one more byte.
SmallBodies ==
  {<<Runs(<<"{","\"","o","k","\"",":","1","}">>)>>, <<Runs(<<"n","o">>)>>, <<<<Run("x", MAX_RESPONSE_SIZE)>>, <<Run("x", 1)>>>>}

InvokeSmall(c) ==
  /\ call[c].pc = "idle"
  /\ \E in \in SmallInputs : call' = [call EXCEPT ![c] = Handle(@, in.tool, in.args)]
  /\ UNCHANGED <<env, API_KEY, BASE_URL>>

ResponseSmall(c) ==
  /\ Alive(call[c]) /\ call[c].res.state = "none"
  /\ \E st \in SmallStatuses, b \in SmallBodies :
       call' = [call EXCEPT ![c] = [OnResponse(call[c], st) EXCEPT !.wire = b]]
  /\ UNCHANGED <<env, API_KEY, BASE_URL>>

Step(c) ==
  \/ InvokeSmall(c) \/ ResponseSmall(c) \/ Data(c) \/ End(c) \/ ReqError(c) \/ Timeout(c)
  \/ Close(c) \/ Resume(c)

\* One call, under every kind of key, over the default base URL and over http.
InitKeys ==
  /\ env \in [CLOUD_AGENT_API_KEY : WhiteKeys, CLOUD_AGENT_URL : {<<>>, <<"h","t","t","p",":","/","/","h">>}]
  /\ API_KEY = OrDefault(env.CLOUD_AGENT_API_KEY, <<>>)
  /\ BASE_URL = StripTrailingSlash(OrDefault(env.CLOUD_AGENT_URL, S_defaultUrl))
  /\ call = [c \in CallIds |-> Idle]

SpecKeys == InitKeys /\ [][\E c \in CallIds : Step(c)]_vars

\* Two calls of one process.
PairIds == {1, 2}

InitPair ==
  /\ env \in [CLOUD_AGENT_API_KEY : {S_key}, CLOUD_AGENT_URL : {<<>>}]
  /\ API_KEY = OrDefault(env.CLOUD_AGENT_API_KEY, <<>>)
  /\ BASE_URL = StripTrailingSlash(OrDefault(env.CLOUD_AGENT_URL, S_defaultUrl))
  /\ call = [c \in PairIds |-> Idle]

SpecPair == InitPair /\ [][\E c \in PairIds : Step(c)]_vars

(***************************************************************************)
(* Properties                                                              *)
(***************************************************************************)

\* C1: with no API key configured, an invocation of any tool with any
\* arguments creates no HTTP request and never enters request() (no promise
\* exists), and what it returns is the text of noKeyError().
NoKeyNoRequest ==
  \A c \in CallIds :
    API_KEY = <<>> =>
      /\ call[c].pc \in {"idle", "returned"}
      /\ call[c].reqs = 0 /\ call[c].req = NoReq /\ call[c].res = NoRes
      /\ call[c].promise = NoPromise
      /\ call[c].pc = "returned" => call[c].out = JStr(Runs(S_noKey))

\* A tool that takes a caller's slug was invoked with no key and has returned.
NoKeyReturned ==
  \E c \in CallIds :
    /\ API_KEY = <<>> /\ call[c].pc = "returned" /\ call[c].tool = "run_playbook"
    /\ call[c].out = JStr(Runs(S_noKey))

\* The scheme of the URL request() resolves for an invocation.
ResolvedScheme(s) == ParseURL(FullUrl(UrlPath(s.tool, s.args))).protocol

\* C2: when a key is configured and the resolved URL has a scheme other than
\* https, request() rejects with the insecure-HTTP message and no request
\* exists: no headers, nothing written, no connection.
InsecureRefused ==
  \A c \in CallIds :
    (/\ call[c].promise.state # "none" /\ API_KEY # <<>>
     /\ ParseURL(FullUrl(UrlPath(call[c].tool, call[c].args))).ok
     /\ ResolvedScheme(call[c]) # S_httpsColon) =>
      /\ call[c].promise = [state |-> "rejected", msg |-> Runs(S_msgInsecure), payload |-> Undefined]
      /\ call[c].reqs = 0 /\ call[c].req = NoReq /\ call[c].res = NoRes

\* request() was entered with a key and an http base URL, and the handler
\* has returned the refusal.
InsecureReturned ==
  \E c \in CallIds :
    /\ API_KEY = S_key /\ call[c].pc = "returned" /\ call[c].promise.state = "rejected"
    /\ ResolvedScheme(call[c]) = <<"h","t","t","p",":">>
    /\ call[c].out = JStr(Runs(S_errorPrefix \o S_msgInsecure))

\* C3: once the running total of chunk lengths exceeds 5 MiB the request is
\* destroyed and the call's result is "Response too large", for every status
\* and chunking, and whatever arrives or ends afterwards.
OversizeDestroysAndFails ==
  \A c \in CallIds :
    call[c].res.size > 5 * 1024 * 1024 =>
      /\ call[c].req.destroyed
      /\ call[c].promise = [state |-> "rejected", msg |-> Runs(S_msgTooLarge), payload |-> Undefined]
      /\ call[c].pc = "returned" => call[c].out = JStr(Runs(S_errorPrefix \o S_msgTooLarge))

\* The ceiling was exceeded by a later chunk of a 200 response, the stream
\* ended afterwards, and the handler has returned.
OversizeThenEnd ==
  \E c \in CallIds :
    /\ call[c].res.size > 5 * 1024 * 1024 /\ call[c].res.chunks > 1
    /\ call[c].res.statusCode = 200 /\ call[c].res.state = "ended"
    /\ call[c].pc = "returned"

\* The segments of a path.
Segments(path) == Split(path, {"/"})

\* C4: for every slug, the slug segment of the path has no "/" and no space,
\* and the path sent to the remote ends in /api/playbooks/<one segment>/run.
SlugStaysInPlaybooks ==
  \A c \in CallIds :
    (call[c].tool = "run_playbook" /\ call[c].req.made) =>
      LET enc == encodeURIComponent(Expand(call[c].args.slug.s))
          segs == Segments(call[c].req.path)
          n == Len(segs)
      IN /\ "/" \notin {enc[i] : i \in 1..Len(enc)}
         /\ " " \notin {enc[i] : i \in 1..Len(enc)}
         /\ n >= 4
         /\ segs[n - 3] = <<"a","p","i">> /\ segs[n - 2] = <<"p","l","a","y","b","o","o","k","s">>
         /\ segs[n - 1] # <<>> /\ segs[n] = <<"r","u","n">>

\* C5: when the 'timeout' event fires on a call that has not settled, the
\* request is destroyed and the call is rejected with "Request timed out";
\* from then on no event changes the result or the accumulated data.
TimeoutDestroysAndFails ==
  [][\A c \in CallIds :
       /\ (call[c].promise.state = "pending" /\ Timeout(c)) =>
            /\ call'[c].req.destroyed
            /\ call'[c].promise = [state |-> "rejected", msg |-> Runs(S_msgTimeout), payload |-> Undefined]
       /\ (call[c].promise.state = "rejected" /\ call[c].promise.msg = Runs(S_msgTimeout)) =>
            /\ call'[c].promise = call[c].promise
            /\ call'[c].res.data = call[c].res.data
            /\ call'[c].res.size = call[c].res.size]_vars

\* The timeout fired before any response arrived and the handler returned it.
TimedOutBeforeResponse ==
  \E c \in CallIds :
    /\ call[c].promise.state = "rejected" /\ call[c].promise.msg = Runs(S_msgTimeout)
    /\ call[c].req.destroyed /\ call[c].res.state = "none"
    /\ call[c].pc = "returned"
    /\ call[c].out = JStr(Runs(S_errorPrefix \o S_msgTimeout))

\* C6: there is no state in which the connection of a call is finished and
\* the promise of request() is still pending.
FinishedCallSettled ==
  \A c \in CallIds :
    (call[c].req.made /\ ~Alive(call[c])) => call[c].promise.state # "pending"

\* The port of a parsed URL, or the default port of its scheme.
PortOf(u) ==
  IF u.port # <<>> THEN u.port
  ELSE IF u.protocol = S_httpsColon THEN <<"4","4","3">> ELSE <<"8","0">>

\* C7: the hostname, port and scheme of every request issued are those of
\* BASE_URL, whatever the tool and its arguments.
DestinationIsBaseUrl ==
  \A c \in CallIds :
    call[c].req.made =>
      LET base == ParseURL(BASE_URL)
      IN /\ base.ok
         /\ call[c].req.hostname = base.hostname
         /\ call[c].req.port = PortOf(base)
         /\ call[c].req.mod = (IF base.protocol = S_httpsColon THEN "https" ELSE "http")

\* A request for a caller's URL went to the host and port of the base URL.
CallerUrlToBase ==
  \E c \in CallIds :
    /\ call[c].tool = "review_pr" /\ call[c].req.made
    /\ call[c].args.pr_url = Txt(<<"h","t","t","p","s",":","/","/","e","v","i","l",".","e","x","a","m","p","l","e","/","p","u","l","l","/","1">>)
    /\ env.CLOUD_AGENT_URL = <<"h","t","t","p","s",":","/","/","h",":","8","4","4","3","/">>
    /\ call[c].req.hostname = <<"h">> /\ call[c].req.port = <<"8","4","4","3">>

\* The handler has returned the failure of its call.
Failed(s) == s.pc = "returned" /\ s.promise.state = "rejected"

\* C8: the failure text returned for a failed call never contains the
\* configured API key, whatever the remote sent.
FailureTextHidesKey ==
  \A c \in CallIds :
    (Failed(call[c]) /\ API_KEY # <<>>) => ~TContains(call[c].out.s, Runs(API_KEY))

\* C9: the failure text of a failed call is bounded: the prefix, the status
\* line and at most 300 characters of the remote body, for a JSON error body
\* as for a non-JSON one.
FailureTextBounded ==
  \A c \in CallIds :
    Failed(call[c]) =>
      TLen(call[c].out.s)
        <= Len(S_errorPrefix) + Len(S_HTTP) + 3 + Len(S_colonSpace) + ERROR_BODY_LIMIT

\* The `error` member of a parsed body, where it has one.
HasError(json) == json.t = "obj" /\ \E i \in 1..Len(json.kids) : json.kids[i].k = Runs(S_error)

\* C10: a complete body that parses as JSON with a status >= 400 fails the
\* call with the body's error field where it has one and with "HTTP <status>"
\* where it has none, for every JSON value.
JsonErrorClassified ==
  \A c \in CallIds :
    LET s == call[c]
        r == JSONParse(s.res.data)
    IN (/\ s.res.state = "ended" /\ ~s.req.destroyed /\ ~s.req.errored
        /\ s.res.statusCode >= 400 /\ r.ok) =>
         /\ s.promise.state = "rejected"
         /\ s.promise.msg = (IF HasError(r.v) THEN GetProp(r.v, Runs(S_error)).s
                             ELSE Runs(<<"H","T","T","P"," ">> \o NumStr(s.res.statusCode)))

\* The 'end' listener ran on a call that nothing had settled before it.
SettledAtEnd(s) == s.res.state = "ended" /\ ~s.req.destroyed /\ ~s.req.errored

\* C11: a complete body that does not parse as JSON with a status >= 400
\* fails the call with "HTTP <status>: " followed by the first
\* min(300, length) characters of the body and nothing more.
RawErrorTruncated ==
  \A c \in CallIds :
    LET s == call[c]
    IN (SettledAtEnd(s) /\ s.res.statusCode >= 400 /\ ~JSONParse(s.res.data).ok) =>
         /\ s.promise.state = "rejected"
         /\ s.promise.msg
              = TCat(Runs(<<"H","T","T","P"," ">> \o NumStr(s.res.statusCode) \o <<":"," ">>), TTake(s.res.data, 300))
         /\ TLen(s.promise.msg)
              = 5 + Len(NumStr(s.res.statusCode)) + 2
                  + (IF TLen(s.res.data) < 300 THEN TLen(s.res.data) ELSE 300)

\* A 500 response with a body of 5 MiB that is no JSON failed with a message
\* of 310 characters.
LongRawErrorCut ==
  \E c \in CallIds :
    /\ SettledAtEnd(call[c]) /\ call[c].res.statusCode = 500
    /\ TLen(call[c].res.data) = 5 * 1024 * 1024
    /\ call[c].promise.state = "rejected" /\ TLen(call[c].promise.msg) = 310

\* C12: a response that ended within the size ceiling settles the call; it
\* fails the call exactly when its status is >= 400, and below 400 the call
\* succeeds with the parsed JSON value when the body parses and with the
\* body text itself (the empty string included) when it does not.
SuccessBelow400 ==
  \A c \in CallIds :
    LET s == call[c]
    IN SettledAtEnd(s) =>
         /\ s.promise.state \in {"resolved", "rejected"}
         /\ s.promise.state = "rejected" <=> s.res.statusCode >= 400
         /\ s.res.statusCode < 400 =>
              s.promise.payload = (IF JSONParse(s.res.data).ok THEN JSONParse(s.res.data).v
                                   ELSE JStr(s.res.data))

\* A response of status 399 ended with an empty body, which is no JSON: the
\* call succeeded with the empty string.
NonJsonSuccess ==
  \E c \in CallIds :
    /\ SettledAtEnd(call[c]) /\ call[c].res.statusCode = 399
    /\ call[c].res.data = <<>> /\ ~JSONParse(call[c].res.data).ok
    /\ call[c].promise.state = "resolved" /\ call[c].promise.payload = JStr(<<>>)

\* C13: whatever the tool and the kind of failure, the text returned for a
\* failed invocation is "Error: " followed by the failure's message: the
\* message of the rejected call, or the fixed text of the missing key or of
\* the missing file and feature.
FailurePrefixed ==
  \A c \in CallIds :
    LET s == call[c]
    IN s.pc = "returned" =>
         /\ s.promise.state = "rejected" =>
              s.out = JStr(TCat(Runs(<<"E","r","r","o","r",":"," ">>), s.promise.msg))
         /\ s.promise.state = "none" =>
              /\ TTake(s.out.s, 7) = Runs(<<"E","r","r","o","r",":"," ">>)
              /\ s.out = (IF API_KEY = <<>> THEN JStr(Runs(S_noKey)) ELSE JStr(Runs(S_provide)))

\* A connection that was refused: the handler returned
\* "Error: connect ECONNREFUSED".
RefusedReturned ==
  \E c \in CallIds :
    /\ call[c].pc = "returned" /\ call[c].req.errored /\ call[c].res.state = "none"
    /\ call[c].promise.state = "rejected"
    /\ call[c].out = JStr(Runs(<<"E","r","r","o","r",":"," ","c","o","n","n","e","c","t"," ","E","C","O","N","N","R","E","F","U","S","E","D">>))

\* C14: no invocation is left without a result: while a handler awaits its
\* call, some event of the call or the handler's own continuation can still
\* happen, so that the handler comes to return.
AwaitingCanProceed ==
  \A c \in CallIds :
    LET s == call[c]
    IN s.pc = "awaiting" =>
         \/ s.promise.state \in {"resolved", "rejected"}
         \/ Alive(s)
         \/ s.req.made /\ s.res.state = "open"
         \/ s.req.made /\ ~s.req.errored /\ s.res.state = "none"

\* The arguments pass the handler's own check (index.js 183-186).
Accepted(s) ==
  s.tool = "generate_tests" => (Truthy(s.args.file) \/ Truthy(s.args.feature))

HeaderValues(req, name) ==
  {req.headers[i].value : i \in {j \in 1..Len(req.headers) : req.headers[j].name = name}}

\* The path and query of a request contain the API key.
KeyInPath(s) == TContains(Runs(s.req.path), Runs(API_KEY))

NoTrailingSlash ==
  LET u == OrDefault(env.CLOUD_AGENT_URL, S_defaultUrl)
  IN /\ BASE_URL # <<>> => BASE_URL[Len(BASE_URL)] # "/"
     /\ u[Len(u)] # "/" => BASE_URL = u

\* What BASE_URL has after its scheme and authority: with the URL that
\* request() parses being BASE_URL followed by the urlPath, the path of the
\* request begins with it.
BasePath ==
  LET rest == From(BASE_URL, Len(S_httpsColon) + 3)
      i == IndexFrom(rest, {"/"}, 1)
  IN IF i = 0 THEN <<>> ELSE From(rest, i)

\* C18: list_sessions issues a GET with no body for
\* /api/sessions?limit=<n>, n being the limit given (1, 50, 100) and 20 when
\* none is given, followed by &status=<status> exactly when a status is
\* given, and by nothing else.
SessionsQuery ==
  \A c \in CallIds :
    LET s == call[c]
    IN (s.tool = "list_sessions" /\ s.req.made) =>
         /\ s.req.method = "GET" /\ s.req.written = <<>>
         /\ s.req.path
              = BasePath \o <<"/","a","p","i","/","s","e","s","s","i","o","n","s","?","l","i","m","i","t","=">>
                  \o (IF s.args.limit = Undefined THEN <<"2","0">> ELSE Expand(s.args.limit.s))
                  \o (IF s.args.status = Undefined THEN <<>>
                      ELSE <<"&","s","t","a","t","u","s","=">> \o Expand(s.args.status.s))

\* list_sessions with limit 50 and status completed over the default base
\* URL.
SessionsListed ==
  \E c \in CallIds :
    /\ call[c].tool = "list_sessions" /\ call[c].req.made /\ BASE_URL = S_defaultUrl
    /\ call[c].args.limit = Num(50)
    /\ call[c].req.path = <<"/","a","p","i","/","s","e","s","s","i","o","n","s","?","l","i","m","i","t","=","5","0","&","s","t","a","t","u","s","=","c","o","m","p","l","e","t","e","d">>

\* The member of a JSON object text for a string argument that is given.
MemberText(name, v) ==
  IF v = Undefined THEN <<>> ELSE <<"\"">> \o name \o <<"\"",":","\"">> \o Expand(v.s) \o <<"\"",",">>

\* C19: generate_tests with no key returns the missing-key text; with a key
\* and neither file nor feature (absent or empty) it returns "Error: Provide
\* either 'file' or 'feature' to test." and creates no request; with a key
\* and one of them it issues one POST /test whose body is the JSON of
\* {file, feature, repo}.
TestsNeedTarget ==
  \A c \in CallIds :
    LET s == call[c]
    IN s.tool = "generate_tests" =>
         /\ API_KEY = <<>> =>
              s.pc = "returned" /\ s.out = JStr(Runs(S_noKey)) /\ s.reqs = 0
         /\ (API_KEY # <<>> /\ ~Truthy(s.args.file) /\ ~Truthy(s.args.feature)) =>
              /\ s.pc = "returned" /\ s.promise = NoPromise /\ s.reqs = 0 /\ s.req = NoReq
              /\ s.out = JStr(Runs(<<"E","r","r","o","r",":"," ","P","r","o","v","i","d","e"," ","e","i","t","h","e","r"," ","'","f","i","l","e","'"," ","o","r"," ","'","f","e","a","t","u","r","e","'"," ","t","o"," ","t","e","s","t",".">>))
         /\ (API_KEY # <<>> /\ (Truthy(s.args.file) \/ Truthy(s.args.feature))) =>
              /\ s.promise.state # "none"
              /\ s.reqs = (IF s.req.made THEN 1 ELSE 0)
              /\ s.req.made =>
                   /\ s.req.method = "POST" /\ s.req.path = BasePath \o <<"/","t","e","s","t">>
                   /\ s.req.written
                        = <<Runs(<<"{">> \o MemberText(<<"f","i","l","e">>, s.args.file)
                                 \o MemberText(<<"f","e","a","t","u","r","e">>, s.args.feature)
                                 \o <<"\"","r","e","p","o","\"",":","\"","a","/","b","\"","}">>)>>

\* generate_tests with a key, an empty file and no feature returned the text
\* about file and feature and made no request.
EmptyFileRefused ==
  \E c \in CallIds :
    /\ call[c].tool = "generate_tests" /\ API_KEY = S_key /\ call[c].pc = "returned"
    /\ call[c].args.file = Txt(<<>>) /\ call[c].args.feature = Undefined
    /\ call[c].out = JStr(Runs(S_provide)) /\ call[c].reqs = 0

\* C20: when request() succeeded, whatever its payload is, the text the
\* handler returns is built from the payload and is not an "Error: " line.
SuccessNeverError ==
  \A c \in CallIds :
    (call[c].pc = "returned" /\ call[c].promise.state = "resolved") =>
      TTake(call[c].out.s, 7) # Runs(<<"E","r","r","o","r",":"," ">>)

\* C21: with two calls in flight, in every interleaving of their events, the
\* 'timeout' event of one call destroys that call's request and, where
\* nothing had settled the call, fails it with "Request timed out"; the
\* other call (its request, its response and data, its promise, what it
\* returned) is as it was.
TimeoutOfOneCall ==
  [][\A c \in PairIds :
       Timeout(c) =>
         /\ call'[c].req.destroyed
         /\ call[c].promise.state = "pending" =>
              call'[c].promise = [state |-> "rejected", msg |-> Runs(S_msgTimeout), payload |-> Undefined]
         /\ \A d \in PairIds \ {c} : call'[d] = call[d]]_vars

\* One call has timed out while the other, with a chunk of its response
\* received, is still in flight.
TimedOutBesideOpenCall ==
  \E c, d \in PairIds :
    /\ c # d
    /\ call[c].req.destroyed /\ call[c].promise.msg = Runs(S_msgTimeout)
    /\ call[d].res.state = "open" /\ call[d].res.chunks = 1 /\ ~call[d].req.destroyed
    /\ call[d].promise.state = "pending"

\* C22: with two calls in flight, in every interleaving of chunk arrivals, a
\* chunk that arrives for one call is counted and buffered by that call
\* alone: its counter grows by the length of the chunk, the counter of each
\* call is the number of bytes delivered to that call, and the other call
\* (counter, buffer, result) is as it was.
OwnCounterAndBuffer ==
  [][\A c \in PairIds :
       Data(c) =>
         /\ call'[c].res.size = call[c].res.size + TLen(Head(call[c].wire))
         /\ call'[c].res.size = TLen(call'[c].got)
         /\ \A d \in PairIds \ {c} :
              call'[d] = call[d] /\ call[d].res.size = TLen(call[d].got)]_vars

\* Both calls have received 5 MiB, 10 MiB between them, and neither has
\* been failed as too large.
BothAtCeiling ==
  \E c, d \in PairIds :
    /\ c # d
    /\ call[c].res.size = 5 * 1024 * 1024 /\ call[d].res.size = 5 * 1024 * 1024
    /\ call[c].promise.state = "pending" /\ call[d].promise.state = "pending"
    /\ ~call[c].req.destroyed /\ ~call[d].req.destroyed

\* C23: API_KEY and BASE_URL are what module load computed from the
\* environment, and no step of any invocation, successful or failed, with
\* two invocations interleaved, changes them or the environment.
ConfigurationFrozen ==
  [][/\ API_KEY' = API_KEY /\ BASE_URL' = BASE_URL /\ env' = env
     /\ API_KEY' = OrDefault(env.CLOUD_AGENT_API_KEY, <<>>)
     /\ BASE_URL' = StripTrailingSlash(OrDefault(env.CLOUD_AGENT_URL, S_defaultUrl))]_vars

\* One invocation has returned a failure and the other a result, and the
\* key and the base URL are those of module load.
FailedAndServed ==
  \E c, d \in PairIds :
    /\ call[c].pc = "returned" /\ call[c].promise.state = "rejected"
    /\ call[d].pc = "returned" /\ call[d].promise.state = "resolved"
    /\ API_KEY = S_key /\ BASE_URL = S_defaultUrl

\* The key consists of whitespace only.
WhitespaceKey == API_KEY # <<>> /\ \A i \in 1..Len(API_KEY) : API_KEY[i] \in {" ", "\t", "\n", "\r"}

\* The base URL is an https URL.
HttpsBase == ParseURL(BASE_URL).ok /\ ParseURL(BASE_URL).protocol = S_httpsColon

\* C24 (as amended): the key is absent exactly when the variable is unset or
\* empty.  Any other key, whitespace included, is kept as it is and passes
\* the gate into request(), where a base URL that is not https is refused;
\* over https a key without CR or LF is sent unchanged after "Bearer ",
\* and for a key with CR or LF no request is created: the call fails with
\* the "Invalid character in header content" error of http.request.
WhitespaceKeyConfigured ==
  \A c \in CallIds :
    LET s == call[c]
    IN /\ API_KEY = env.CLOUD_AGENT_API_KEY
       /\ s.pc # "idle" =>
            /\ (s.pc = "returned" /\ s.promise.state = "none" /\ s.out = JStr(Runs(S_noKey)))
                 <=> API_KEY = <<>>
            /\ (API_KEY # <<>> /\ ~HttpsBase) =>
                 ~s.req.made /\ s.promise.state = "rejected" /\ s.promise.msg = Runs(S_msgInsecure)
            /\ (API_KEY # <<>> /\ HttpsBase /\ ValidHeaderValue(API_KEY)) =>
                 s.req.made /\ HeaderValues(s.req, "Authorization") = {<<"B","e","a","r","e","r"," ">> \o API_KEY}
            /\ (API_KEY # <<>> /\ HttpsBase /\ ~ValidHeaderValue(API_KEY)) =>
                 /\ ~s.req.made /\ s.reqs = 0 /\ s.promise.state = "rejected"
                 /\ s.promise.msg = Runs(<<"I","n","v","a","l","i","d"," ","c","h","a","r","a","c","t","e","r"," ","i","n"," ","h","e","a","d","e","r"," ","c","o","n","t","e","n","t"," ","[","\"","A","u","t","h","o","r","i","z","a","t","i","o","n","\"","]">>)

\* A key of three spaces over https: the request carries "Bearer " followed
\* by the three spaces.
SpacesSent ==
  \E c \in CallIds :
    /\ API_KEY = <<" ", " ", " ">> /\ call[c].req.made /\ call[c].req.mod = "https"
    /\ HeaderValues(call[c].req, "Authorization") = {<<"B","e","a","r","e","r"," "," "," "," ">>}

\* C24 (as stated): every key of whitespace only passes the gate and, over
\* https, is sent unchanged in the Authorization header.
WhitespaceKeySent ==
  \A c \in CallIds :
    (WhitespaceKey /\ HttpsBase /\ call[c].pc # "idle") =>
      /\ call[c].promise.state # "none"
      /\ call[c].req.made
      /\ HeaderValues(call[c].req, "Authorization") = {<<"B","e","a","r","e","r"," ">> \o API_KEY}

\* The compact JSON text of the body of each POST tool for the arguments of
\* the model, written out.
BodyText(s) ==
  CASE s.tool = "run_task" -> <<"{","\"","p","r","o","m","p","t","\"",":","\"","x","\"","}">>
    [] s.tool = "review_pr" -> <<"{","\"","p","r","_","u","r","l","\"",":","\"","h","t","t","p","s",":","/","/","e","v","i","l",".","e","x","a","m","p","l","e","/","p","u","l","l","/","1","\"",",","\"","p","o","s","t","_","r","e","v","i","e","w","\"",":","f","a","l","s","e","}">>
    [] s.tool = "ask_codebase" -> <<"{","\"","q","u","e","s","t","i","o","n","\"",":","\"","q","\"",",","\"","r","e","p","o","\"",":","\"","a","/","b","\"","}">>
    [] s.tool = "generate_tests" ->
         <<"{">> \o MemberText(<<"f","i","l","e">>, s.args.file) \o MemberText(<<"f","e","a","t","u","r","e">>, s.args.feature)
         \o <<"\"","r","e","p","o","\"",":","\"","a","/","b","\"","}">>
    [] s.tool = "security_scan" -> <<"{","\"","r","e","p","o","s","\"",":","[","\"","a","/","b","\"","]",",","\"","t","y","p","e","\"",":","\"","a","l","l","\"","}">>
    [] s.tool = "run_playbook" -> <<"{","\"","r","e","p","o","\"",":","\"","a","/","b","\"","}">>

\* C25: every request is ended; for a POST tool the compact JSON text of the
\* body, with no extra whitespace, was written to it exactly once and before
\* it was ended, and for a GET tool nothing was written.
BodyWrittenOnce ==
  \A c \in CallIds :
    LET s == call[c]
    IN s.req.made =>
         /\ s.req.ended
         /\ s.tool \in {"list_sessions", "list_playbooks", "get_usage"} =>
              s.req.method = "GET" /\ s.req.written = <<>>
         /\ s.tool \notin {"list_sessions", "list_playbooks", "get_usage"} =>
              s.req.method = "POST" /\ s.req.written = <<Runs(BodyText(s))>>

\* The request of run_task was ended with {"prompt":"x"} written to it once.
PromptWritten ==
  \E c \in CallIds :
    /\ call[c].tool = "run_task" /\ call[c].req.made /\ call[c].req.ended
    /\ call[c].req.written = <<Runs(<<"{","\"","p","r","o","m","p","t","\"",":","\"","x","\"","}">>)>>

\* C26: once the promise of a call is settled, by oversize, by timeout, by
\* the end of the response or by an error, no later event ('data', 'end',
\* 'error', 'timeout', close) changes its state, message or payload, and
\* what the handler has returned stays what it is.
ResultSettlesOnce ==
  [][\A c \in CallIds :
       /\ call[c].promise.state \in {"resolved", "rejected"} =>
            call'[c].promise = call[c].promise
       /\ call[c].pc = "returned" => call'[c].out = call[c].out]_vars

\* The request destroyed on timeout has raised its 'error' event, and the
\* result is still "Request timed out".
ErrorAfterTimeoutIgnored ==
  \E c \in CallIds :
    /\ call[c].req.destroyed /\ call[c].req.errored
    /\ call[c].promise.state = "rejected" /\ call[c].promise.msg = Runs(S_msgTimeout)

\* C27: at every point of a response the buffer holds at most 5 MiB, the
\* byte count is the sum of the lengths of the chunks received, the chunk
\* that takes the count beyond the ceiling is not appended, and once the
\* count is beyond the ceiling the buffer does not change.
BufferBounded ==
  [][\A c \in CallIds :
       /\ TLen(call'[c].res.data) <= 5 * 1024 * 1024
       /\ call'[c].res.size = TLen(call'[c].got)
       /\ (Data(c) /\ call'[c].res.size > 5 * 1024 * 1024) =>
            call'[c].res.data = call[c].res.data
       /\ call[c].res.size > 5 * 1024 * 1024 => call'[c].res.data = call[c].res.data]_vars

\* A second chunk took the count to 5 MiB and one byte, and the buffer still
\* holds the 5 MiB of the first.
CeilingChunkDropped ==
  \E c \in CallIds :
    /\ call[c].res.chunks = 2 /\ call[c].res.size = 5 * 1024 * 1024 + 1
    /\ TLen(call[c].res.data) = 5 * 1024 * 1024

\* C28: a call fails as "Response too large" only with a byte count strictly
\* greater than 5242880; a response of exactly 5242880 bytes is not failed
\* as too large, and at its end it is classified by its status like any
\* other.
ExactCeilingAccepted ==
  \A c \in CallIds :
    LET s == call[c]
    IN /\ (s.promise.state = "rejected" /\ s.promise.msg = Runs(S_msgTooLarge)) =>
            s.res.size > 5242880
       /\ (s.res.size = 5242880 /\ SettledAtEnd(s)) =>
            /\ s.res.statusCode < 400 =>
                 s.promise.state = "resolved" /\ s.promise.payload = JStr(s.res.data)
            /\ s.res.statusCode >= 400 =>
                 /\ s.promise.state = "rejected"
                 /\ TTake(s.promise.msg, 5) = Runs(<<"H","T","T","P"," ">>)

\* A 200 response of exactly 5242880 bytes in one chunk ended and the call
\* succeeded with the whole text.
ExactCeilingResolved ==
  \E c \in CallIds :
    /\ call[c].res.size = 5242880 /\ call[c].res.chunks = 1 /\ call[c].res.state = "ended"
    /\ call[c].res.statusCode = 200
    /\ call[c].promise.state = "resolved" /\ TLen(call[c].promise.payload.s) = 5242880

\* C29: in every reachable state, a request that a tool has issued uses
\* https and carries the Authorization header with the configured key: a
\* call without a key has no promise of request() and no request, and a
\* call with a key over a base that is not https has no request.
OnlyHttpsWithKey ==
  \A c \in CallIds :
    LET s == call[c]
    IN /\ s.req.made =>
            /\ s.req.mod = "https" /\ API_KEY # <<>>
            /\ \E i \in 1..Len(s.req.headers) :
                 /\ s.req.headers[i].name = "Authorization"
                 /\ s.req.headers[i].value = S_bearer \o API_KEY
       /\ API_KEY = <<>> => s.promise.state = "none" /\ ~s.req.made
       /\ (s.pc # "idle" /\ API_KEY # <<>> /\ ~HttpsBase) => ~s.req.made

\* list_playbooks has issued its request, over https to port 8443 with the
\* key in the Authorization header.
PlaybooksOverHttps ==
  \E c \in CallIds :
    /\ call[c].tool = "list_playbooks" /\ call[c].req.made
    /\ call[c].req.mod = "https" /\ call[c].req.port = <<"8","4","4","3">>
    /\ HeaderValues(call[c].req, "Authorization") = {S_bearer \o S_key}

\* C30: the result of a response that ended is the one its bytes give when
\* they are decoded and classified as a whole, however they were split into
\* chunks.
ChunkingIrrelevant ==
  \A c \in CallIds :
    LET s == call[c]
    IN SettledAtEnd(s) =>
         s.promise = Settle([s EXCEPT !.promise = Pending, !.res.data = Utf8Decode(s.got)],
                            JSONParse(Utf8Decode(s.got)), s.res.statusCode,
                            s.res.statusCode >= HTTP_ERROR_STATUS).promise

====
